---- MODULE Spec2Model ----
(***************************************************************************)
(* Client side of the remote job protocol of nnsight:                      *)
(*   src/src/nnsight/intervention/backends/remote.py  (RemoteBackend)      *)
(*   src/src/nnsight/refactor/nnsight04/intervention/contexts/tracer.py    *)
(* One backend call at a time: construction, __call__, the blocking        *)
(* request (connect, submit, receive loop) and the non-blocking request    *)
(* (submit or poll).  The server and the network are the environment:      *)
(* every response they can give is an input drawn with \E.                 *)
(* contexts/backends/RemoteBackend.py is the earlier version of the same   *)
(* backend; where the two differ the model follows remote.py.              *)
(* Spec is the backend, call by call.  Further specifications run one      *)
(* function each on every input within the bounds: SpecBatch               *)
(* (Tracer.batch with VLLM._prepare_input and VLLM._batch, vllm.py),       *)
(* SpecInject (the injection that ends __call__), SpecDownload             *)
(* (get_result), SpecLoop (the receive loop of blocking_request, a         *)
(* statement at a time) and SpecInit (RemoteBackend.__init__).             *)
(***************************************************************************)
EXTENDS Integers, Sequences, FiniteSets, TLC

\* ---------------------------------------------------------------- bounds
MaxMsgs == 2       \* duplex messages received by one blocking call
MaxCalls == 2      \* backend calls in one behaviour
MaxInvokes == 3    \* invocations batched by one trace

\* ------------------------------------------------------------- data model
NoJob == 0                       \* job_id = None / CONFIG.API.JOB_ID = None
JobIds == 1..MaxCalls            \* ids the server can assign (one per POST)
Nodes == {0, 1}                  \* graph.nodes: the graph {"a", "b"}
Keys == Nodes \cup {2}           \* names a payload can carry; 2 is no node
Values == {1, 2}                 \* values a node can hold
Unset == [n \in Nodes |-> 0]     \* a graph none of whose nodes holds a value

\* A RESULT: an ordered mapping name -> value (a Python dict), as the sequence
\* of its items; keys are distinct.  The mappings drawn hold up to two
\* entries, in the order of the names.
Payloads ==
    {p \in UNION {[1..k -> Keys \X Values] : k \in {0, 1, 2}} :
        \A i, j \in DOMAIN p : i < j => p[i][1] < p[j][1]}

\* Dependencies of one streamed node, and the RESULT one download decodes to.
SmallPayloads == {p \in Payloads : Len(p) <= 1}

\* Optional[RESULT]
NoResult == [isNone |-> TRUE, items |-> <<>>]
Some(p) == [isNone |-> FALSE, items |-> p]

\* ResponseModel: id, status, data.  data is None (hasData = FALSE), a RESULT
\* (COMPLETED), (index, dependencies) (STREAM) or {node_id, message}
\* (NNSIGHT_ERROR).
Response(id, status, hasData, items, index) ==
    [id |-> id, status |-> status, hasData |-> hasData, items |-> items,
     index |-> index]

\* The responses the server can give about job j.  Only a COMPLETED response
\* has its id read (the key of the download), so only it is also drawn with
\* another job's id.
Responses(j, others) ==
    {Response(j, s, FALSE, <<>>, 0) : s \in {"QUEUED", "RUNNING"}}
    \cup {Response(i, "COMPLETED", FALSE, <<>>, 0) : i \in {j} \cup others}
    \cup {Response(i, "COMPLETED", TRUE, p, 0) : i \in {j} \cup others, p \in Payloads}
    \cup {Response(j, "STREAM", TRUE, p, n) : p \in SmallPayloads, n \in Keys}
    \cup {Response(j, "NNSIGHT_ERROR", TRUE, <<>>, n) : n \in Keys}

NoResponse == Response(NoJob, "NONE", FALSE, <<>>, 0)

\* What one GET /result/{id} gives: a decoded RESULT, or a failure.
Fetches == {[ok |-> FALSE, items |-> <<>>]} \cup {[ok |-> TRUE, items |-> p] : p \in SmallPayloads}

VARIABLES
    config_job_id,   \* CONFIG.API.JOB_ID as saved
    next_id,         \* server: the id the next accepted POST gets
    calls,           \* backend calls started so far
    job_id,          \* self.job_id
    blocking,        \* self.blocking
    pc,              \* where the current call is
    graph,           \* the caller's graph: node -> cached value (0: none)
    result,          \* what the request method returned to __call__
    outcome,         \* "none", "returned", or the exception the call raised
    err_index,       \* NNsightError's node index (-1: none)
    posts,           \* POST /request issued by this call
    post_ids,        \* ids the server returned to this call's POSTs
    polls,           \* job ids of GET /response/{id} issued by this call
    connects,        \* duplex connects of this call
    receives,        \* duplex messages received by this call
    call_downloads,  \* job ids of GET /result/{id} issued by this call
    injected,        \* payloads __call__ injected into the caller's graph
    executed,        \* nodes executed by this call, in order
    exec_seen,       \* the graph as the node executed last found it
    http,            \* status code of this call's POST or GET /response (0: none)
    last,            \* the response handled last and how it arrived
    start,           \* the persisted job id when the call began
    local,           \* the caller's graph: LocalContext nodes with their subgraph
    sent,            \* what this call's POST carried
    invoker_inputs,  \* Tracer.batch: the (args, kwargs) of the invocations
    plan,            \* Tracer.batch: what it returned
    dl,              \* get_result: the download in progress
    channel,         \* receive loop: the messages the duplex channel delivers
    handled,         \* receive loop: the messages handle_response is done with
    given,           \* __init__: its arguments and CONFIG.API
    self             \* __init__: the fields it set

remote_vars == <<config_job_id, next_id, calls, job_id, blocking, pc, graph, result,
                 outcome, err_index, posts, post_ids, polls, connects, receives,
                 call_downloads, injected, executed, exec_seen, http, last, start,
                 local, sent>>
batch_vars == <<invoker_inputs, plan>>
dl_vars == <<dl>>
loop_vars == <<channel, handled>>
init_vars == <<given, self>>
vars == <<remote_vars, batch_vars, dl_vars, loop_vars, init_vars>>

\* ------------------------------------------------------------ ResultInjector
\* for node_name, node_value in value.items():
\*     self.graph.nodes[node_name]._value = node_value
\* The entries are written in order; the lookup of a name the graph does not
\* hold raises (KeyError) and the entries written before it stay written.
\* Mutant of HasNode: a name the graph does not hold is let through.
HasNodeAlways(g, name) == TRUE

\* self.graph.nodes[node_name]: the graph holds a node of that name.
HasNode(g, name) == name \in DOMAIN g

\* Mutants of SetValue: the other nodes lose their values; the value is added
\* to the one the node holds.
SetValueClearingOthers(g, name, value) == [n \in DOMAIN g |-> IF n = name THEN value ELSE 0]

SetValueAccumulating(g, name, value) == [g EXCEPT ![name] = @ + value]

\* self.graph.nodes[node_name]._value = node_value
SetValue(g, name, value) == [g EXCEPT ![name] = value]

RECURSIVE InjectFrom(_, _, _)
InjectFrom(g, items, i) ==
    IF i > Len(items) THEN [ok |-> TRUE, graph |-> g]
    ELSE IF ~HasNode(g, items[i][1]) THEN [ok |-> FALSE, graph |-> g]
    ELSE InjectFrom(SetValue(g, items[i][1], items[i][2]), items, i + 1)

Inject(g, items) == InjectFrom(g, items, 1)

\* ----------------------------------------------------------- handle_response
NoFetch == [ok |-> FALSE, items |-> <<>>]
FetchesFor(response) ==
    IF response.status = "COMPLETED" /\ ~response.hasData THEN Fetches ELSE {NoFetch}

\* What handling one response comes to: the exception raised, the result
\* returned, the graph as it is left and as an executed node found it, the
\* download issued, the nodes executed.
Handled(exc, res, g, fetchedId, execd, index) ==
    [exc |-> exc, result |-> res, graph |-> g, seen |-> g, fetchedId |-> fetchedId,
     executed |-> execd, index |-> index]

\* Mutant of HandleCompleted: the result is downloaded whether or not the
\* response carries it inline.
HandleCompletedAlwaysFetch(response, g, fetched) ==
    IF fetched.ok
    THEN Handled("none", Some(fetched.items), g, response.id, <<>>, -1)
    ELSE Handled("DownloadFault", NoResult, g, response.id, <<>>, -1)

\* COMPLETED: the inline data, or get_result(response.id) when it is None.
HandleCompleted(response, g, fetched) ==
    IF ~response.hasData
    THEN IF fetched.ok
         THEN Handled("none", Some(fetched.items), g, response.id, <<>>, -1)
         ELSE Handled("DownloadFault", NoResult, g, response.id, <<>>, -1)
    ELSE Handled("none", Some(response.items), g, NoJob, <<>>, -1)

\* node.execute(): the node runs on the values its dependencies hold; the
\* values injected for it are held for that execution and released after it.
Execute(g, index, dependencies) ==
    [n \in DOMAIN g |->
        IF n \in {dependencies[i][1] : i \in DOMAIN dependencies} THEN 0 ELSE g[n]]

\* Mutant of HandleStream: the node is executed before its dependencies are
\* injected.
HandleStreamExecuteFirst(response, g, hasGraph) ==
    IF ~hasGraph THEN Handled("AttributeError", NoResult, g, NoJob, <<>>, -1)
    ELSE IF response.index \notin Nodes
    THEN Handled("KeyError", NoResult, g, NoJob, <<>>, -1)
    ELSE LET inj == Inject(g, response.items) IN
         [Handled(IF inj.ok THEN "none" ELSE "KeyError", NoResult, inj.graph, NoJob,
                  <<response.index>>, -1) EXCEPT !.seen = g]

\* Mutant of HandleStream: the node is executed a second time.
HandleStreamExecuteTwice(response, g, hasGraph) ==
    IF ~hasGraph THEN Handled("AttributeError", NoResult, g, NoJob, <<>>, -1)
    ELSE LET inj == Inject(g, response.items) IN
         IF ~inj.ok THEN Handled("KeyError", NoResult, inj.graph, NoJob, <<>>, -1)
         ELSE IF response.index \notin Nodes
         THEN Handled("KeyError", NoResult, inj.graph, NoJob, <<>>, -1)
         ELSE [Handled("none", NoResult, Execute(inj.graph, response.index, response.items),
                       NoJob, <<response.index, response.index>>, -1)
               EXCEPT !.seen = inj.graph]

\* STREAM: inject the dependencies, then execute graph.nodes[index].
\* graph is None when the caller passed none: the attribute access raises.
HandleStream(response, g, hasGraph) ==
    IF ~hasGraph THEN Handled("AttributeError", NoResult, g, NoJob, <<>>, -1)
    ELSE LET inj == Inject(g, response.items) IN
         IF ~inj.ok THEN Handled("KeyError", NoResult, inj.graph, NoJob, <<>>, -1)
         ELSE IF response.index \notin Nodes
         THEN Handled("KeyError", NoResult, inj.graph, NoJob, <<>>, -1)
         ELSE [Handled("none", NoResult, Execute(inj.graph, response.index, response.items),
                       NoJob, <<response.index>>, -1) EXCEPT !.seen = inj.graph]

\* Mutant of HandleError: a plain Exception, with no node index.
HandleErrorUntyped(response, g, hasGraph) ==
    Handled("Exception", NoResult, g, NoJob, <<>>, -1)

\* NNSIGHT_ERROR: look the node up, print its traceback, raise
\* NNsightError(message, error_node.index).  With no graph the lookup itself
\* raises; so does the lookup of a node_id the graph does not hold.
HandleError(response, g, hasGraph) ==
    IF ~hasGraph THEN Handled("AttributeError", NoResult, g, NoJob, <<>>, -1)
    ELSE IF response.index \notin Nodes
    THEN Handled("KeyError", NoResult, g, NoJob, <<>>, -1)
    ELSE Handled("NNsightError", NoResult, g, NoJob, <<>>, response.index)

HandleResponse(response, g, hasGraph, fetched) ==
    CASE response.status = "COMPLETED" -> HandleCompleted(response, g, fetched)
      [] response.status = "STREAM" -> HandleStream(response, g, hasGraph)
      [] response.status = "NNSIGHT_ERROR" -> HandleError(response, g, hasGraph)
      [] OTHER -> Handled("none", NoResult, g, NoJob, <<>>, -1)

\* Mutant of SubmitRequest: the status code is not looked at.
SubmitRequestUnchecked(code, response, fetched) ==
    LET h == HandleResponse(response, Unset, FALSE, fetched) IN
    [exc |-> h.exc, response |-> response, fetchedId |-> h.fetchedId,
     handled |-> TRUE, posts |-> 1]

\* ------------------------------------------------------ preprocess, serialize
\* node.target of the nodes of the graph {"a", "b"}: "b" is a LocalContext
\* node, the root of a subgraph that runs on the client.
Target == [n \in Nodes |-> IF n = 1 THEN "LocalContext" ELSE "operation"]
LocalContexts == {n \in Nodes : Target[n] = "LocalContext"}

\* A graph as it is encoded: the cached values of its nodes and the
\* LocalContext nodes that still hold their local subgraph.
Graph(values, unpruned) == [values |-> values, local |-> unpruned]

\* graph.copy(): another graph with the same content.
Copy(g) == g

\* LocalContext.prune(node): the local subgraph of node is taken out of the
\* graph node is in.
Prune(g, node) == [g EXCEPT !.local = @ \ {node}]

\* for node in new_graph.nodes: if node.target is LocalContext: prune(node)
RECURSIVE PruneFrom(_, _)
PruneFrom(g, n) ==
    IF n \notin Nodes THEN g
    ELSE PruneFrom(IF Target[n] = "LocalContext" THEN Prune(g, n) ELSE g, n + 1)

\* preprocess(graph): the pruned copy, and the graph it was given as it is
\* left.
Preprocess(g) == [original |-> g, new_graph |-> PruneFrom(Copy(g), 0)]

\* serialize(graph): the bytes, by the graph they encode.
Serialize(g) == [encodes |-> g]

\* Mutant of Posted: the session id is left out of the headers.
PostedWithoutSession(data, session_id) ==
    [sent |-> TRUE, data |-> data, session_id |-> FALSE]

\* One POST /request: its body and whether its headers carry session_id.
Posted(data, session_id) == [sent |-> TRUE, data |-> data, session_id |-> session_id]
NotSent == [sent |-> FALSE, data |-> Serialize(Graph(Unset, {})), session_id |-> FALSE]

\* ------------------------------------------------------------ submit_request
\* One POST.  200: the response is handled with no graph and what the handling
\* returns is dropped; the response itself is returned.  Otherwise
\* ConnectionError.
HttpCodes == {200, 500}

\* Mutant of SubmitRequest: a refused POST is issued a second time, and is
\* refused again.
SubmitRequestRetrying(code, response, fetched) ==
    IF code = 200
    THEN LET h == HandleResponse(response, Unset, FALSE, fetched) IN
         [exc |-> h.exc, response |-> response, fetchedId |-> h.fetchedId,
          handled |-> TRUE, posts |-> 1]
    ELSE [exc |-> "ConnectionError", response |-> NoResponse, fetchedId |-> NoJob,
          handled |-> FALSE, posts |-> 2]

\* posts: the requests.post calls made, one on either path.
SubmitRequest(code, response, fetched) ==
    IF code = 200
    THEN LET h == HandleResponse(response, Unset, FALSE, fetched) IN
         [exc |-> h.exc, response |-> response, fetchedId |-> h.fetchedId,
          handled |-> TRUE, posts |-> 1]
    ELSE [exc |-> "ConnectionError", response |-> NoResponse, fetchedId |-> NoJob,
          handled |-> FALSE, posts |-> 1]

\* -------------------------------------------------------------- get_response
\* One GET /response/{job_id}.  200: the value of handle_response(response),
\* again with no graph.  Otherwise Exception(reason).
GetResponse(code, response, fetched) ==
    IF code = 200
    THEN LET h == HandleResponse(response, Unset, FALSE, fetched) IN
         [exc |-> h.exc, result |-> h.result, fetchedId |-> h.fetchedId,
          handled |-> TRUE]
    ELSE [exc |-> "Exception", result |-> NoResult, fetchedId |-> NoJob,
          handled |-> FALSE]

\* ------------------------------------------------------------------- helpers
FetchedSeq(s, id) == IF id = NoJob THEN s ELSE Append(s, id)
Last(response, via, fetched) == [response |-> response, via |-> via, fetched |-> fetched]

\* if result is not None: ResultModel.inject(graph, result)   (__call__)
CallInject(g, res) == IF res.isNone THEN [ok |-> TRUE, graph |-> g] ELSE Inject(g, res.items)

\* ------------------------------------------------------------- Tracer.batch
\* One positional argument of an invocation: a prompt, or a list of prompts.
Prompt(p) == [isList |-> FALSE, value |-> p, items |-> <<>>]
PromptList(l) == [isList |-> TRUE, value |-> "", items |-> l]
ArgValues == {Prompt("p"), PromptList(<<>>), PromptList(<<"q", "r">>)}

\* A sampling parameter object, as the invoker group it is tagged with.
NoGroup == -1

\* (args, kwargs) of one invocation.  Not yet prepared: args are prompts and
\* lists of prompts.  Prepared ("processed" in kwargs): args are (prompts,
\* params).
Raw(args) == [processed |-> FALSE, args |-> args, prompts |-> <<>>, params |-> <<>>]
Processed(prompts) ==
    [processed |-> TRUE, args |-> <<>>, prompts |-> prompts,
     params |-> [i \in 1..Len(prompts) |-> NoGroup]]

Invocations ==
    {Raw(a) : a \in UNION {[1..k -> ArgValues] : k \in {0, 1, 2}}}
    \cup {Processed(l) : l \in {<<>>, <<"s">>}}

InvokerInputs == UNION {[1..n -> Invocations] : n \in 0..MaxInvokes}

\* if not type(arg) is list: arg = [arg]
AsList(arg) == IF arg.isList THEN arg.items ELSE <<arg.value>>

\* for arg in args: for prompt in arg: prompts.append(prompt)
RECURSIVE PromptsOf(_, _)
PromptsOf(args, i) ==
    IF i > Len(args) THEN <<>> ELSE AsList(args[i]) \o PromptsOf(args, i + 1)

\* VLLM._prepare_input: the prompts, one parameter object per prompt, and the
\* number of prompts; a prepared input is returned as it is, with len(args[0]).
PrepareInput(inv) ==
    IF inv.processed
    THEN [prompts |-> inv.prompts, params |-> inv.params, batch_size |-> Len(inv.prompts)]
    ELSE LET prompts == PromptsOf(inv.args, 1) IN
         [prompts |-> prompts, params |-> [i \in 1..Len(prompts) |-> NoGroup],
          batch_size |-> Len(prompts)]

\* batched_input: None, ((bprompts, bparams), {"invoker_group": k}), or the
\* default (((0, -1),), {}).
Batched(kind, prompts, params, invoker_group, args) ==
    [kind |-> kind, prompts |-> prompts, params |-> params,
     invoker_group |-> invoker_group, args |-> args]
NoBatched == Batched("none", <<>>, <<>>, 0, <<>>)
DefaultInput == Batched("default", <<>>, <<>>, 0, << <<0, -1>> >>)

\* Mutant of BatchInputs: the invoker group goes up before the parameters are
\* tagged.
BatchInputsCountingFirst(batched_inputs, prompts, params) ==
    LET b == IF batched_inputs.kind = "none"
             THEN Batched("merged", <<>>, <<>>, 0, <<>>)
             ELSE batched_inputs IN
    Batched("merged", b.prompts \o prompts,
            b.params \o [i \in 1..Len(params) |-> b.invoker_group + 1],
            b.invoker_group + 1, <<>>)

\* VLLM._batch: the prompts are appended, the parameters are tagged with the
\* invoker group and appended, and the invoker group goes up by one.
BatchInputs(batched_inputs, prompts, params) ==
    LET b == IF batched_inputs.kind = "none"
             THEN Batched("merged", <<>>, <<>>, 0, <<>>)
             ELSE batched_inputs IN
    Batched("merged", b.prompts \o prompts,
            b.params \o [i \in 1..Len(params) |-> b.invoker_group],
            b.invoker_group + 1, <<>>)

\* Mutant of NextStart: the offset counts invocations, not items.
NextStartPerInvocation(batch_start, batch_size) == batch_start + 1

\* batch_start += batch_size
NextStart(batch_start, batch_size) == batch_start + batch_size

\* Mutant of OrDefault: None is returned as it is.
OrDefaultMissing(batched_input) == batched_input

\* if batched_input is None: batched_input = (((0, -1),), dict())
OrDefault(batched_input) ==
    IF batched_input.kind = "none" THEN DefaultInput ELSE batched_input

\* Tracer.batch: one (batch_start, batch_size) per invocation, in order, and
\* the merged input.
RECURSIVE BatchFrom(_, _, _, _, _)
BatchFrom(inputs, i, batch_groups, batch_start, batched_input) ==
    IF i > Len(inputs)
    THEN [batched_input |-> OrDefault(batched_input), batch_groups |-> batch_groups]
    ELSE LET prepared == PrepareInput(inputs[i]) IN
         BatchFrom(inputs, i + 1,
                   Append(batch_groups, <<batch_start, prepared.batch_size>>),
                   NextStart(batch_start, prepared.batch_size),
                   BatchInputs(batched_input, prepared.prompts, prepared.params))

Batch(inputs) == BatchFrom(inputs, 1, <<>>, 0, NoBatched)

\* No call of Tracer.batch has returned.
NoPlan == [batched_input |-> NoBatched, batch_groups |-> <<>>, returned |-> FALSE]
Plan(b) == [batched_input |-> b.batched_input, batch_groups |-> b.batch_groups,
            returned |-> TRUE]

\* --------------------------------------------------------------- get_result
\* What GET /result/{id} gives: the Content-length header (or none), the
\* chunks iter_content yields (each by its number of bytes), whether the
\* iteration raises when the chunks are out (the transport saw the connection
\* drop) and whether the bytes received are an encoded RESULT.
Sizes == {0, 1, 2}
ChunkSeqs == {<<>>, <<1>>, <<2>>, <<1, 1>>}
Streams ==
    [hasLength : BOOLEAN, length : Sizes, chunks : ChunkSeqs, drops : BOOLEAN,
     valid : BOOLEAN]

Download(where, stream, total_size, at, buffer, loaded, exc) ==
    [pc |-> where, stream |-> stream, total_size |-> total_size, at |-> at,
     buffer |-> buffer, loaded |-> loaded, outcome |-> exc]

NoStream == [hasLength |-> FALSE, length |-> 0, chunks |-> <<>>, drops |-> FALSE,
             valid |-> FALSE]
NoDownload == Download("idle", NoStream, -1, 0, 0, FALSE, "none")

\* torch.load(result_bytes) and ResultModel(**result).result: bytes that are
\* an encoded RESULT decode; no bytes at all are no encoding (EOFError), and
\* other bytes fail in the unpickling.
TorchLoad(buffer, valid) ==
    IF buffer = 0 THEN "EOFError"
    ELSE IF valid THEN "returned"
    ELSE "UnpicklingError"

\* requests.get(..., stream=True); total_size = float(headers["Content-length"])
GetResultOpen ==
    /\ dl.pc = "start"
    /\ dl' = IF dl.stream.hasLength
             THEN [dl EXCEPT !.pc = "reading", !.total_size = dl.stream.length]
             ELSE [dl EXCEPT !.pc = "done", !.outcome = "KeyError"]
    /\ UNCHANGED <<remote_vars, batch_vars, loop_vars, init_vars>>

\* for data in stream.iter_content(chunk_size=None):
\*     progress_bar.update(len(data)); result_bytes.write(data)
GetResultChunk ==
    /\ dl.pc = "reading"
    /\ dl.at < Len(dl.stream.chunks)
    /\ dl' = [dl EXCEPT !.at = @ + 1, !.buffer = @ + dl.stream.chunks[dl.at + 1]]
    /\ UNCHANGED <<remote_vars, batch_vars, loop_vars, init_vars>>

\* The iteration is over: it raised, or the buffer is rewound, decoded and
\* the RESULT returned.
GetResultLoad ==
    /\ dl.pc = "reading"
    /\ dl.at = Len(dl.stream.chunks)
    /\ dl' = IF dl.stream.drops
             THEN [dl EXCEPT !.pc = "done", !.outcome = "ChunkedEncodingError"]
             ELSE [dl EXCEPT !.pc = "done", !.loaded = TRUE,
                             !.outcome = TorchLoad(dl.buffer, dl.stream.valid)]
    /\ UNCHANGED <<remote_vars, batch_vars, loop_vars, init_vars>>

\* ------------------------------------------------------------------ __init__
\* self.job_id = job_id or CONFIG.API.JOB_ID
InitJobId(arg, config) == IF arg # NoJob THEN arg ELSE config

\* Optional[bool] / Optional[str]: "None" is the argument left out.
SslArgs == {"None", "True", "False"}
HostArgs == {"None", "h1"}
ConfigHosts == {"h0", "h2"}

\* The arguments of RemoteBackend(...) and the CONFIG.API it reads.
Arguments(host, blocking_arg, job_arg, ssl, HOST, SSL, JOB_ID) ==
    [host |-> host, blocking |-> blocking_arg, job_id |-> job_arg, ssl |-> ssl,
     HOST |-> HOST, SSL |-> SSL, JOB_ID |-> JOB_ID]
NoArguments == Arguments("None", TRUE, NoJob, "None", "h0", FALSE, NoJob)

\* f"http{'s' if ssl else ''}://{host}", f"ws{'s' if ssl else ''}://{host}":
\* an address, by its scheme and its host.
Address(scheme, secure, host) ==
    [scheme |-> IF secure THEN scheme \o "s" ELSE scheme, host |-> host]

\* self.ssl = CONFIG.API.SSL if ssl is None else ssl
InitSsl(ssl, SSL) == IF ssl = "None" THEN SSL ELSE ssl = "True"

\* self.host = host or CONFIG.API.HOST
InitHost(host, HOST) == IF host = "None" THEN HOST ELSE host

\* self.address is built with self.ssl.
InitAddress(ssl, SSL, host) == Address("http", InitSsl(ssl, SSL), host)

\* self.ws_address is built with CONFIG.API.SSL.
InitWsAddress(ssl, SSL, host) == Address("ws", SSL, host)

NoBackend ==
    [built |-> FALSE, job_id |-> NoJob, ssl |-> FALSE, blocking |-> TRUE,
     host |-> "", address |-> Address("", FALSE, ""),
     ws_address |-> Address("", FALSE, "")]

\* RemoteBackend.__init__
Construct ==
    /\ ~self.built
    /\ self' = [built |-> TRUE,
                job_id |-> InitJobId(given.job_id, given.JOB_ID),
                ssl |-> InitSsl(given.ssl, given.SSL),
                blocking |-> given.blocking,
                host |-> InitHost(given.host, given.HOST),
                address |-> InitAddress(given.ssl, given.SSL,
                                        InitHost(given.host, given.HOST)),
                ws_address |-> InitWsAddress(given.ssl, given.SSL,
                                             InitHost(given.host, given.HOST))]
    /\ UNCHANGED <<given, remote_vars, batch_vars, dl_vars, loop_vars>>

\* ---------------------------------------------------------------------- Init
NoLast == Last(NoResponse, "none", NoFetch)

InitBackend ==
    /\ config_job_id = NoJob
    /\ next_id = 1
    /\ calls = 0
    /\ job_id = NoJob
    /\ blocking = TRUE
    /\ pc = "idle"
    /\ result = NoResult
    /\ outcome = "none"
    /\ err_index = -1
    /\ posts = 0
    /\ post_ids = <<>>
    /\ polls = <<>>
    /\ connects = 0
    /\ receives = 0
    /\ call_downloads = <<>>
    /\ injected = <<>>
    /\ executed = <<>>
    /\ exec_seen = Unset
    /\ http = 0
    /\ last = NoLast
    /\ start = [config |-> NoJob]
    /\ local = LocalContexts
    /\ sent = NotSent

\* The graph of a call holds no cached value when the call begins.
InitRemote == InitBackend /\ graph = Unset

\* No trace is batching and nothing is being downloaded.
InitBatchIdle == invoker_inputs = <<>> /\ plan = NoPlan
InitDownloadIdle == dl = NoDownload
InitLoopIdle == channel = <<>> /\ handled = <<>>
InitSelfIdle == given = NoArguments /\ self = NoBackend

Init ==
    /\ InitRemote /\ InitBatchIdle /\ InitDownloadIdle
    /\ InitLoopIdle /\ InitSelfIdle

\* What every call starts from: a graph with no cached value, nothing issued.
BeginCall ==
    /\ calls < MaxCalls
    /\ pc \in {"idle", "done"}
    /\ calls' = calls + 1
    /\ pc' = "called"
    /\ graph' = Unset
    /\ result' = NoResult
    /\ outcome' = "none"
    /\ err_index' = -1
    /\ posts' = 0
    /\ post_ids' = <<>>
    /\ polls' = <<>>
    /\ connects' = 0
    /\ receives' = 0
    /\ call_downloads' = <<>>
    /\ injected' = <<>>
    /\ executed' = <<>>
    /\ exec_seen' = Unset
    /\ http' = 0
    /\ last' = NoLast
    /\ start' = [config |-> config_job_id]
    /\ local' = LocalContexts
    /\ sent' = NotSent
    /\ UNCHANGED <<config_job_id, next_id>>
    /\ UNCHANGED <<batch_vars, dl_vars, loop_vars, init_vars>>

\* RemoteBackend(..., blocking, job_id) followed by its __call__.
NewBackend(b, arg) ==
    /\ BeginCall
    /\ blocking' = b
    /\ job_id' = InitJobId(arg, config_job_id)

\* The same backend object is called again: its fields are as they were.
CallAgain ==
    /\ calls > 0
    /\ BeginCall
    /\ UNCHANGED <<blocking, job_id>>

\* Mutant of Dispatch: a job id makes the call poll, blocking or not.
DispatchOnJobIdFirst(b, id) ==
    IF id # NoJob THEN "poll" ELSE IF b THEN "blocking" ELSE "submit"

\* __call__: if self.blocking: blocking_request, else non_blocking_request,
\* which submits if self.job_id is None and polls otherwise.
Dispatch(b, id) ==
    IF b THEN "blocking" ELSE IF id = NoJob THEN "submit" ELSE "poll"

\* The call ends: it returned, or raised exc.
Finish(exc, index) ==
    /\ pc' = "done"
    /\ outcome' = IF exc = "none" THEN "returned" ELSE exc
    /\ err_index' = index

\* ---------------------------------------------------------- blocking_request
\* sio.connect(...): a session id, or the connect raises.
Connect(ok) ==
    /\ pc = "called"
    /\ Dispatch(blocking, job_id) = "blocking"
    /\ connects' = connects + 1
    /\ IF ok
       THEN /\ pc' = "connected"
            /\ UNCHANGED <<outcome, err_index>>
       ELSE Finish("ConnectFault", -1)
    /\ UNCHANGED <<config_job_id, next_id, calls, job_id, blocking, graph, result,
                   posts, post_ids, polls, receives, call_downloads,
                   injected, executed, exec_seen, http, last, start, local, sent>>
    /\ UNCHANGED <<batch_vars, dl_vars, loop_vars, init_vars>>

\* remote_graph = preprocess(graph), serialize(remote_graph),
\* headers['session_id'] = sio.sid, submit_request.
BlockingSubmit(code, response, fetched) ==
    /\ pc = "connected"
    /\ LET remote_graph == Preprocess(Graph(graph, local))
           s == SubmitRequest(code, response, fetched) IN
         /\ graph' = remote_graph.original.values
         /\ local' = remote_graph.original.local
         /\ sent' = Posted(Serialize(remote_graph.new_graph), TRUE)
         /\ posts' = posts + s.posts
         /\ post_ids' = IF code = 200 THEN Append(post_ids, response.id) ELSE post_ids
         /\ next_id' = IF code = 200 THEN next_id + 1 ELSE next_id
         /\ call_downloads' = FetchedSeq(call_downloads, s.fetchedId)
         /\ http' = code
         /\ last' = IF s.handled THEN Last(response, "post", fetched) ELSE last
         /\ IF s.exc = "none"
            THEN /\ pc' = "receiving"
                 /\ UNCHANGED <<outcome, err_index>>
            ELSE Finish(s.exc, -1)
    /\ UNCHANGED <<config_job_id, calls, job_id, blocking, result, polls,
                   connects, receives, injected, executed, exec_seen, start>>
    /\ UNCHANGED <<batch_vars, dl_vars, loop_vars, init_vars>>

\* Mutant of LoopReturns: the loop ends after any message handled.
LoopReturnsAfterAnyMessage(h) == TRUE

\* if result is not None: return result        (the receive loop)
LoopReturns(h) == ~h.result.isNone

\* One turn of the receive loop: sio.receive(), unpickle, handle_response with
\* the caller's graph; a result ends the loop and __call__ injects it.
Receive(response, fetched) ==
    /\ pc = "receiving"
    /\ receives < MaxMsgs
    /\ LET h == HandleResponse(response, graph, TRUE, fetched) IN
         /\ receives' = receives + 1
         /\ call_downloads' = FetchedSeq(call_downloads, h.fetchedId)
         /\ executed' = executed \o h.executed
         /\ exec_seen' = IF h.executed # <<>> THEN h.seen ELSE exec_seen
         /\ last' = Last(response, "ws", fetched)
         /\ IF h.exc # "none"
            THEN /\ Finish(h.exc, h.index)
                 /\ graph' = h.graph
                 /\ UNCHANGED <<result, injected>>
            ELSE IF LoopReturns(h)
            THEN LET inj == CallInject(h.graph, h.result) IN
                 /\ result' = h.result
                 /\ injected' = Append(injected, h.result.items)
                 /\ graph' = inj.graph
                 /\ Finish(IF inj.ok THEN "none" ELSE "KeyError", -1)
            ELSE /\ graph' = h.graph
                 /\ UNCHANGED <<pc, outcome, err_index, result, injected>>
    /\ UNCHANGED <<config_job_id, next_id, calls, job_id, blocking, posts, post_ids,
                   polls, connects, http, start, local, sent>>
    /\ UNCHANGED <<batch_vars, dl_vars, loop_vars, init_vars>>

\* ------------------------------------------------------ non_blocking_request
\* Mutant of SubmittedJobId: the id of the response is not saved.
SubmittedJobIdUnsaved(config, s) == config

\* CONFIG.API.JOB_ID = response.id; CONFIG.save()   (not reached when
\* submit_request raised)
SubmittedJobId(config, s) == IF s.exc = "none" THEN s.response.id ELSE config

\* self.job_id is None: serialize(graph), submit_request, CONFIG.API.JOB_ID =
\* response.id, CONFIG.save(); the method returns None.
NonBlockingSubmit(code, response, fetched) ==
    /\ pc = "called"
    /\ Dispatch(blocking, job_id) = "submit"
    /\ LET s == SubmitRequest(code, response, fetched) IN
         /\ sent' = Posted(Serialize(Graph(graph, local)), FALSE)
         /\ posts' = posts + s.posts
         /\ post_ids' = IF code = 200 THEN Append(post_ids, response.id) ELSE post_ids
         /\ next_id' = IF code = 200 THEN next_id + 1 ELSE next_id
         /\ call_downloads' = FetchedSeq(call_downloads, s.fetchedId)
         /\ http' = code
         /\ last' = IF s.handled THEN Last(response, "post", fetched) ELSE last
         /\ config_job_id' = SubmittedJobId(config_job_id, s)
         /\ Finish(s.exc, -1)
    /\ UNCHANGED <<calls, job_id, blocking, graph, result, polls, connects,
                   receives, injected, executed, exec_seen, start, local>>
    /\ UNCHANGED <<batch_vars, dl_vars, loop_vars, init_vars>>

\* Mutants of PolledJobId: cleared whatever the poll gave; kept when the poll
\* gave a result; kept when the poll raised.
PolledJobIdAlwaysCleared(config, r) == NoJob

PolledJobIdKeptOnResult(config, r) == IF r.exc # "none" THEN NoJob ELSE config

PolledJobIdKeptOnFault(config, r) ==
    IF r.exc # "none" THEN config
    ELSE IF ~r.result.isNone THEN NoJob
    ELSE config

\* The persisted id after the poll: cleared when get_response gave a result
\* and when anything was raised, else left.
PolledJobId(config, r) ==
    IF r.exc # "none" THEN NoJob
    ELSE IF ~r.result.isNone THEN NoJob
    ELSE config

\* self.job_id is set: get_response inside try/except; a result is returned
\* to __call__, which injects it.
NonBlockingPoll(code, response, fetched) ==
    /\ pc = "called"
    /\ Dispatch(blocking, job_id) = "poll"
    /\ LET r == GetResponse(code, response, fetched)
           inj == CallInject(graph, r.result) IN
         /\ polls' = Append(polls, job_id)
         /\ call_downloads' = FetchedSeq(call_downloads, r.fetchedId)
         /\ http' = code
         /\ last' = IF r.handled THEN Last(response, "poll", fetched) ELSE last
         /\ config_job_id' = PolledJobId(config_job_id, r)
         /\ IF r.exc # "none"
            THEN /\ Finish(r.exc, -1)
                 /\ UNCHANGED <<graph, result, injected>>
            ELSE /\ result' = r.result
                 /\ injected' = IF r.result.isNone THEN injected
                                ELSE Append(injected, r.result.items)
                 /\ graph' = inj.graph
                 /\ Finish(IF inj.ok THEN "none" ELSE "KeyError", -1)
    /\ UNCHANGED <<next_id, calls, job_id, blocking, posts, post_ids, connects,
                   receives, executed, exec_seen, start, local, sent>>
    /\ UNCHANGED <<batch_vars, dl_vars, loop_vars, init_vars>>

\* ---------------------------------------------------------------------- Next
Issued == 1..(next_id - 1)

\* A mismatched id is the id of the job submitted before job j.
OtherIds(j) == {j - 1} \cap Issued

Next ==
    \/ \E b \in BOOLEAN, arg \in {NoJob} \cup Issued : NewBackend(b, arg)
    \/ CallAgain
    \/ \E ok \in BOOLEAN : Connect(ok)
    \/ \E code \in HttpCodes, response \in Responses(next_id, {}) :
         \E fetched \in FetchesFor(response) : BlockingSubmit(code, response, fetched)
    \/ /\ pc = "receiving"
       /\ \E response \in Responses(post_ids[1], OtherIds(post_ids[1])) :
            \E fetched \in FetchesFor(response) : Receive(response, fetched)
    \/ \E code \in HttpCodes, response \in Responses(next_id, {}) :
         \E fetched \in FetchesFor(response) : NonBlockingSubmit(code, response, fetched)
    \/ \E code \in HttpCodes, response \in Responses(job_id, OtherIds(job_id)) :
         \E fetched \in FetchesFor(response) : NonBlockingPoll(code, response, fetched)

Spec == Init /\ [][Next]_vars

\* ----------------------------------------------------------------- SpecBatch
\* Tracer.batch applied to every sequence of up to MaxInvokes invocations.
InitBatch ==
    /\ InitRemote
    /\ InitDownloadIdle
    /\ InitLoopIdle
    /\ InitSelfIdle
    /\ invoker_inputs \in InvokerInputs
    /\ plan = NoPlan

CallBatch ==
    /\ ~plan.returned
    /\ plan' = Plan(Batch(invoker_inputs))
    /\ UNCHANGED <<invoker_inputs, remote_vars, dl_vars, loop_vars, init_vars>>

NextBatch == CallBatch

SpecBatch == InitBatch /\ [][NextBatch]_vars

\* ---------------------------------------------------------------- SpecInject
\* The injection that ends __call__, on one graph that the caller passes to
\* call after call: any cached values to begin with, any RESULT, its entries
\* in any order.
Graphs == [Nodes -> {0} \cup Values]
Results ==
    {p \in UNION {[1..k -> Keys \X Values] : k \in {0, 1, 2}} :
        \A i, j \in DOMAIN p : i # j => p[i][1] # p[j][1]}

InitInject ==
    /\ InitBackend
    /\ InitBatchIdle
    /\ InitDownloadIdle
    /\ InitLoopIdle
    /\ InitSelfIdle
    /\ graph \in Graphs

\* One more call, whose request gave the RESULT p:
\* if result is not None: ResultModel.inject(graph, result)
InjectResult(p) ==
    /\ calls < MaxCalls
    /\ calls' = calls + 1
    /\ LET inj == CallInject(graph, Some(p)) IN
         /\ graph' = inj.graph
         /\ result' = Some(p)
         /\ injected' = Append(injected, p)
         /\ outcome' = IF inj.ok THEN "returned" ELSE "KeyError"
    /\ UNCHANGED <<config_job_id, next_id, job_id, blocking, pc, err_index,
                   posts, post_ids, polls, connects, receives, call_downloads,
                   executed, exec_seen, http, last, start, local, sent>>
    /\ UNCHANGED <<batch_vars, dl_vars, loop_vars, init_vars>>

NextInject == \E p \in Results : InjectResult(p)

SpecInject == InitInject /\ [][NextInject]_vars

\* ------------------------------------------------------------------ SpecLoop
\* The receive loop of one blocking call, a statement at a time: the duplex
\* channel delivers the messages of channel in that order.
LoopMessages ==
    {r \in Responses(1, {}) :
        /\ r.status # "RUNNING"
        /\ r.items \in {<<>>, << <<0, 1>> >>, << <<1, 2>> >>, << <<2, 1>> >>}
        /\ r.index \in Nodes}
Channels == UNION {[1..k -> LoopMessages] : k \in 0..MaxMsgs}

\* Mutant of NextMessage: the message delivered last is taken first.
NextMessageNewestFirst(delivered, received) == delivered[Len(delivered) - received]

\* sio.receive()[1]: the oldest message not yet received.
NextMessage(delivered, received) == delivered[received + 1]

InitLoop ==
    /\ InitRemote
    /\ InitBatchIdle
    /\ InitDownloadIdle
    /\ InitSelfIdle
    /\ channel \in Channels
    /\ handled = <<>>

\* response = sio.receive()[1]; response = ResponseModel.unpickle(response)
LoopReceive(fetched) ==
    /\ pc = "receiving"
    /\ receives < Len(channel)
    /\ fetched \in FetchesFor(NextMessage(channel, receives))
    /\ receives' = receives + 1
    /\ last' = Last(NextMessage(channel, receives), "ws", fetched)
    /\ pc' = "handling"
    /\ UNCHANGED <<config_job_id, next_id, calls, job_id, blocking, graph, result,
                   outcome, err_index, posts, post_ids, polls, connects,
                   call_downloads, injected, executed, exec_seen, http, start,
                   local, sent>>
    /\ UNCHANGED <<batch_vars, dl_vars, loop_vars, init_vars>>

\* result = self.handle_response(response, graph=graph); a result ends the
\* loop and __call__ injects it, anything else goes round the loop.
LoopHandle ==
    /\ pc = "handling"
    /\ LET h == HandleResponse(last.response, graph, TRUE, last.fetched) IN
         /\ call_downloads' = FetchedSeq(call_downloads, h.fetchedId)
         /\ executed' = executed \o h.executed
         /\ exec_seen' = IF h.executed # <<>> THEN h.seen ELSE exec_seen
         /\ handled' = Append(handled, last.response)
         /\ IF h.exc # "none"
            THEN /\ Finish(h.exc, h.index)
                 /\ graph' = h.graph
                 /\ UNCHANGED <<result, injected>>
            ELSE IF LoopReturns(h)
            THEN LET inj == CallInject(h.graph, h.result) IN
                 /\ result' = h.result
                 /\ injected' = Append(injected, h.result.items)
                 /\ graph' = inj.graph
                 /\ Finish(IF inj.ok THEN "none" ELSE "KeyError", -1)
            ELSE /\ graph' = h.graph
                 /\ pc' = "receiving"
                 /\ UNCHANGED <<outcome, err_index, result, injected>>
    /\ UNCHANGED <<config_job_id, next_id, calls, job_id, blocking, posts, post_ids,
                   polls, connects, receives, http, last, start, local, sent>>
    /\ UNCHANGED <<channel, batch_vars, dl_vars, init_vars>>

\* One blocking call: constructed, connected, submitted (the POST is answered
\* QUEUED, or refused), then the loop.
NextLoop ==
    \/ calls = 0 /\ NewBackend(TRUE, NoJob)
    \/ \E ok \in BOOLEAN : Connect(ok)
    \/ \E code \in HttpCodes :
         BlockingSubmit(code, Response(next_id, "QUEUED", FALSE, <<>>, 0), NoFetch)
    \/ \E fetched \in Fetches : LoopReceive(fetched)
    \/ LoopHandle

SpecLoop == InitLoop /\ [][NextLoop]_vars

\* ------------------------------------------------------------------ SpecInit
\* RemoteBackend.__init__ on every combination of its arguments and CONFIG.API.
InitConstruct ==
    /\ InitRemote
    /\ InitBatchIdle
    /\ InitDownloadIdle
    /\ InitLoopIdle
    /\ self = NoBackend
    /\ \E host \in HostArgs, b \in BOOLEAN, job_arg \in {NoJob} \cup JobIds,
          ssl \in SslArgs, HOST \in ConfigHosts, SSL \in BOOLEAN,
          JOB_ID \in {NoJob} \cup JobIds :
          given = Arguments(host, b, job_arg, ssl, HOST, SSL, JOB_ID)

NextInit == Construct

SpecInit == InitConstruct /\ [][NextInit]_vars

\* -------------------------------------------------------------- SpecDownload
\* get_result run against every stream the server and the transport can give.
InitDownload ==
    /\ InitRemote
    /\ InitBatchIdle
    /\ InitLoopIdle
    /\ InitSelfIdle
    /\ \E stream \in Streams : dl = Download("start", stream, -1, 0, 0, FALSE, "none")

NextDownload ==
    \/ GetResultOpen
    \/ GetResultChunk
    \/ GetResultLoad

SpecDownload == InitDownload /\ [][NextDownload]_vars

\* ==================================================================== claims
Done == pc = "done"
Returned == pc = "done" /\ outcome = "returned"
Raised == pc = "done" /\ outcome \notin {"none", "returned"}
LastStatus == last.response.status
\* The last response came over the duplex channel of a blocking call.
FromDuplex == blocking /\ last.via = "ws"
\* The call in progress is a non-blocking poll / a non-blocking submission.
Polling == ~blocking /\ job_id # NoJob /\ pc \in {"called", "done"}
Submitting == ~blocking /\ job_id = NoJob /\ pc \in {"called", "done"}
\* A STREAM response whose handling raises nothing.
CleanStream(r) ==
    /\ r.status = "STREAM"
    /\ r.index \in Nodes
    /\ \A i \in DOMAIN r.items : r.items[i][1] \in Nodes
\* The result the handling of a COMPLETED response l.response produces.
Produced(l) == IF l.response.hasData THEN Some(l.response.items) ELSE Some(l.fetched.items)
\* The handling of a COMPLETED response l.response raised nothing.
CleanCompleted(l) ==
    /\ l.response.status = "COMPLETED"
    /\ l.response.hasData \/ l.fetched.ok

\* C1: a blocking call returns only after a COMPLETED duplex message has been
\* handled; after a QUEUED or RUNNING message, and after a STREAM message whose
\* handling raised nothing, the call has neither returned nor raised and is
\* back at receiving.
C1_ReturnsOnlyAfterCompleted ==
    /\ (blocking /\ Returned) => (FromDuplex /\ LastStatus = "COMPLETED")
    /\ (FromDuplex /\ LastStatus \in {"QUEUED", "RUNNING"})
          => (pc = "receiving" /\ outcome = "none")
    /\ (FromDuplex /\ CleanStream(last.response))
          => (pc = "receiving" /\ outcome = "none")

C1_Witness ==
    /\ FromDuplex /\ CleanStream(last.response)
    /\ pc = "receiving" /\ receives = 1 /\ executed # <<>>

\* A step that handles a response: one more POST answered 200, one more poll
\* answered 200, or one more duplex message.
HandlesStep ==
    \/ receives' = receives + 1
    \/ posts' = posts + 1 /\ http' = 200
    \/ Len(polls') = Len(polls) + 1 /\ http' = 200

\* C2: handling a COMPLETED response produces one result: with inline data no
\* download is issued and the result is that data; with no data exactly one
\* download is issued, keyed by the response's id, and the result is what it
\* decoded to.  In a blocking call the receive loop then ends and the result
\* is injected into the caller's graph, once.
C2_CompletedProducesOneResult ==
    [][(HandlesStep /\ last'.response.status = "COMPLETED") =>
        /\ last'.response.hasData => call_downloads' = call_downloads
        /\ ~last'.response.hasData
              => call_downloads' = Append(call_downloads, last'.response.id)
        /\ (last'.via = "ws" /\ CleanCompleted(last')) =>
              /\ pc' = "done"
              /\ outcome' \in {"returned", "KeyError"}
              /\ result' = Produced(last')
              /\ injected' = <<Produced(last').items>>
              /\ graph' = Inject(graph, Produced(last').items).graph
              /\ outcome' = "returned" <=> Inject(graph, Produced(last').items).ok
      ]_vars

C2_Witness ==
    /\ FromDuplex /\ LastStatus = "COMPLETED" /\ ~last.response.hasData
    /\ Returned /\ Len(injected) = 1 /\ injected[1] # <<>> /\ graph # Unset
    /\ call_downloads = <<last.response.id>>

Downloads(j) == Cardinality({i \in DOMAIN call_downloads : call_downloads[i] = j})

\* C3: for any job, counting the submission's own response, every duplex
\* message and every poll, the result of the job is downloaded at most once
\* (counted over the downloads the call in progress has issued).
C3_AtMostOneDownloadPerJob == \A j \in JobIds : Downloads(j) <= 1

\* C4: in a blocking call, a duplex message with the error status that names a
\* node of the graph ends the loop with NNsightError carrying that node's
\* index; once raised, the call receives no further message and posts nothing.
C4_ErrorRaisesTypedError ==
    [][/\ (receives' = receives + 1 /\ last'.response.status = "NNSIGHT_ERROR"
            /\ last'.response.index \in Nodes)
          => /\ pc' = "done"
             /\ outcome' = "NNsightError"
             /\ err_index' = last'.response.index
             /\ posts' = posts
             /\ graph' = graph
       /\ (pc = "done" /\ outcome = "NNsightError" /\ calls' = calls)
          => (receives' = receives /\ posts' = posts)
      ]_vars

C4_Witness ==
    /\ FromDuplex /\ LastStatus = "NNSIGHT_ERROR"
    /\ Raised /\ outcome = "NNsightError" /\ err_index = 1 /\ receives = 2

\* C5: a submission POST answered with a code other than 200 raises
\* ConnectionError at once: the response is not handled, no duplex message is
\* received, nothing is downloaded, and the graph and the persisted job id are
\* as they were when the call began.
C5_PostFailureRaisesImmediately ==
    (posts = 1 /\ http # 200) =>
        /\ Raised /\ outcome = "ConnectionError"
        /\ last = NoLast
        /\ receives = 0
        /\ call_downloads = <<>>
        /\ graph = Unset
        /\ injected = <<>>
        /\ config_job_id = start.config

C5_Witness ==
    /\ posts = 1 /\ http = 500 /\ blocking /\ connects = 1
    /\ outcome = "ConnectionError"

\* C6: a non-blocking call with no job id issues exactly one POST, connects no
\* duplex channel and polls nothing; when the POST is answered 200 with QUEUED
\* or RUNNING the call returns at once, and whenever it returns the persisted
\* job id is the id of the server's response.
C6_NonBlockingSubmit ==
    (Submitting /\ Done) =>
        /\ posts = 1 /\ connects = 0 /\ receives = 0 /\ polls = <<>>
        /\ Returned => (last.via = "post" /\ config_job_id = last.response.id
                        /\ post_ids = <<config_job_id>> /\ injected = <<>>)
        /\ (http = 200 /\ LastStatus \in {"QUEUED", "RUNNING"}) => Returned

C6_Witness ==
    /\ Submitting /\ Returned /\ LastStatus = "QUEUED"
    /\ start.config = NoJob /\ config_job_id = 1

\* C7: a non-blocking call with a job id issues exactly one GET for that id
\* and no POST, and ends without receiving anything; when the status is QUEUED
\* or RUNNING it returns normally with the persisted job id and every node
\* value as they were.
C7_NonBlockingPollOnce ==
    (Polling /\ Done) =>
        /\ polls = <<job_id>> /\ posts = 0 /\ connects = 0 /\ receives = 0
        /\ (http = 200 /\ LastStatus \in {"QUEUED", "RUNNING"}) =>
              /\ Returned
              /\ config_job_id = start.config
              /\ graph = Unset
              /\ result = NoResult /\ injected = <<>>

C7_Witness ==
    /\ Polling /\ Returned /\ LastStatus = "RUNNING"
    /\ start.config # NoJob /\ config_job_id = job_id

\* C8: a poll that observes COMPLETED and obtains the result clears the
\* persisted job id and has that result injected into the caller's graph; a
\* poll that returns without having observed COMPLETED leaves the persisted
\* job id as it was.
C8_PollClearsOnCompleted ==
    (Polling /\ Done) =>
        /\ (http = 200 /\ CleanCompleted(last)) =>
              /\ config_job_id = NoJob
              /\ result = Produced(last)
              /\ injected = <<result.items>>
              /\ graph = Inject(Unset, result.items).graph
        /\ (Returned /\ LastStatus # "COMPLETED") => config_job_id = start.config

C8_Witness ==
    /\ Polling /\ Returned /\ LastStatus = "COMPLETED"
    /\ start.config # NoJob /\ config_job_id = NoJob /\ graph # Unset

\* The exception a poll raises, from what the server answered.
PollFault ==
    IF http # 200 THEN "Exception"
    ELSE IF LastStatus \in {"STREAM", "NNSIGHT_ERROR"} THEN "AttributeError"
    ELSE IF LastStatus = "COMPLETED" /\ ~CleanCompleted(last) THEN "DownloadFault"
    ELSE "KeyError"

\* C9: when a non-blocking poll raises (the GET fails, the status is an error,
\* the handling or the download fails), the persisted job id is cleared when
\* the call exits and the exception raised is the one that occurred.
C9_PollFaultClearsJobId ==
    (Polling /\ Raised) => (config_job_id = NoJob /\ outcome = PollFault)

C9_Witness ==
    /\ Polling /\ Raised /\ outcome = "DownloadFault"
    /\ start.config # NoJob /\ config_job_id = NoJob

\* C10: a non-blocking poll answered with the error status naming a node of
\* the graph clears the persisted job id and raises NNsightError carrying that
\* node's index.
C10_PollErrorRaisesTypedError ==
    (Polling /\ Done /\ http = 200 /\ LastStatus = "NNSIGHT_ERROR"
       /\ last.response.index \in Nodes)
    => (config_job_id = NoJob /\ outcome = "NNsightError"
        /\ err_index = last.response.index)

\* The job the call in progress is about: the id it polled, or the id the
\* server gave its POST.
CallJob ==
    IF polls # <<>> THEN polls[1]
    ELSE IF post_ids # <<>> THEN post_ids[1]
    ELSE NoJob

\* The call is over and the last response it handled said COMPLETED or
\* NNSIGHT_ERROR.
ObservedFinal == Done /\ last.via # "none" /\ LastStatus \in {"COMPLETED", "NNSIGHT_ERROR"}

\* C11: once a call has observed COMPLETED or the error status for a job, the
\* next non-blocking call does not poll that job: the persisted id, which a
\* newly constructed backend reads, is not the finished job's id, and the
\* job_id of a non-blocking backend object, which a further call on the same
\* object reads, is not the finished job's id either.
C11_FinishedJobIsForgotten ==
    ObservedFinal =>
        /\ config_job_id # CallJob
        /\ ~blocking => job_id # CallJob

\* The lengths of the prepared inputs of the invocations, in order.
Lengths == [i \in 1..Len(invoker_inputs) |-> PrepareInput(invoker_inputs[i]).batch_size]

RECURSIVE SumTo(_, _)
SumTo(L, k) == IF k = 0 THEN 0 ELSE L[k] + SumTo(L, k - 1)

\* C12: for n >= 1 invocations whose prepared inputs have lengths L1..Ln,
\* batch returns n groups, the i-th being (L1 + ... + L(i-1), Li): the first
\* starts at 0, each starts where the one before it ends, the last ends at
\* L1 + ... + Ln, which is the length of the merged input, and an invocation
\* of length 0 has its own group of length 0.
C12_GroupsPartitionTheBatch ==
    (plan.returned /\ Len(invoker_inputs) >= 1) =>
        LET n == Len(invoker_inputs)
            g == plan.batch_groups IN
        /\ Len(g) = n
        /\ \A i \in 1..n : g[i] = <<SumTo(Lengths, i - 1), Lengths[i]>>
        /\ g[1][1] = 0
        /\ \A i \in 1..(n - 1) : g[i + 1][1] = g[i][1] + g[i][2]
        /\ g[n][1] + g[n][2] = SumTo(Lengths, n)
        /\ Len(plan.batched_input.prompts) = SumTo(Lengths, n)
        /\ Len(plan.batched_input.params) = SumTo(Lengths, n)

C12_Witness ==
    /\ plan.returned
    /\ plan.batch_groups = << <<0, 1>>, <<1, 0>>, <<1, 3>> >>
    /\ plan.batched_input.prompts = <<"p", "q", "r", "p">>

\* C13: with no invocation, batch returns no explicit group and, in place of
\* a merged input, the default input: the single pair (0, -1), start 0 and
\* length -1, which stands for the whole input.
C13_NoInvocationGivesDefault ==
    (plan.returned /\ invoker_inputs = <<>>) =>
        /\ plan.batch_groups = <<>>
        /\ plan.batched_input.kind = "default"
        /\ plan.batched_input.args = << <<0, -1>> >>

C13_Witness ==
    /\ plan.returned /\ invoker_inputs = <<>>
    /\ Len(plan.batched_input.args) = 1 /\ plan.batched_input.args[1][2] = -1

\* C14: on every submission, blocking or not, what is encoded and sent is a
\* copy of the caller's graph from which the local subgraphs of the
\* LocalContext nodes are pruned, and the caller's graph, its values and its
\* local subgraphs, is as it was before the submission.
C14_PrunedCopyIsSent ==
    [][posts' = posts + 1 =>
        /\ sent'.sent
        /\ sent'.data.encodes.values = graph
        /\ sent'.data.encodes.local = {}
        /\ graph' = graph
        /\ local' = local
        /\ local' = LocalContexts
      ]_vars

\* The names a payload carries, and the value it gives a name it carries.
Names(p) == {p[i][1] : i \in DOMAIN p}
ValueIn(p, n) == p[CHOOSE i \in DOMAIN p : p[i][1] = n][2]

\* C15: an injection of a full-result payload that does not fail leaves every
\* node the payload names with the payload's value for it and every node the
\* payload does not name with the value it had.
C15_InjectSetsNamedNodesOnly ==
    [][(injected' = Append(injected, result'.items) /\ outcome' = "returned") =>
        \A n \in Nodes :
            graph'[n] = IF n \in Names(result'.items)
                        THEN ValueIn(result'.items, n)
                        ELSE graph[n]
      ]_vars

C15_Witness ==
    /\ injected = << << <<0, 1>> >>, << <<1, 2>> >> >> /\ outcome = "returned"
    /\ graph[0] = 1 /\ graph[1] = 2

\* C16: injecting the payload that was injected just before leaves every node
\* value, and the way the injection ends, as the first injection left them.
C16_InjectTwiceIsInjectOnce ==
    [][(injected # <<>> /\ injected' = Append(injected, injected[Len(injected)])) =>
        (graph' = graph /\ outcome' = outcome)
      ]_vars

C16_Witness ==
    /\ Len(injected) = 2 /\ injected[2] = injected[1]
    /\ injected[1] = << <<1, 1>>, <<0, 2>> >> /\ outcome = "returned"
    /\ graph[0] = 2 /\ graph[1] = 1

\* C17: no step adds a node to the caller's graph or takes one from it; a
\* duplex STREAM message whose dependencies name no node of the graph, and a
\* result handed to __call__ that names no node of the graph, end the call
\* with the error of the failed lookup.
C17_InjectNeverAddsNode ==
    [][/\ DOMAIN graph' = DOMAIN graph
       /\ (receives' = receives + 1 /\ last'.response.status = "STREAM"
             /\ ~(Names(last'.response.items) \subseteq DOMAIN graph))
          => (pc' = "done" /\ outcome' = "KeyError" /\ executed' = executed)
       /\ (Len(injected') = Len(injected) + 1
             /\ ~(Names(result'.items) \subseteq DOMAIN graph))
          => (pc' = "done" /\ outcome' = "KeyError")
      ]_vars

C17_Witness ==
    /\ blocking /\ receives = 2 /\ executed # <<>>
    /\ LastStatus = "COMPLETED" /\ injected = << << <<0, 1>>, <<2, 1>> >> >>
    /\ outcome = "KeyError" /\ graph[0] = 1

\* The two duplex messages of the scenario: STREAM with (index of b, {a: v}),
\* COMPLETED with {b: w}.
StreamsAToB(r, v) ==
    r.status = "STREAM" /\ r.index = 1 /\ r.items = << <<0, v>> >>
CompletedWithB(r, w) ==
    r.status = "COMPLETED" /\ r.hasData /\ r.items = << <<1, w>> >>

DownloadRaised == dl.pc = "done" /\ dl.outcome \notin {"none", "returned"}

\* C19: a download whose response has no Content-length header raises; a
\* download whose stream ends after fewer bytes than Content-length declared
\* raises; and a buffer shorter than the declared size is never decoded.
C19_ShortDownloadFails ==
    /\ (dl.pc = "done" /\ ~dl.stream.hasLength) => DownloadRaised
    /\ (dl.pc = "done" /\ dl.stream.hasLength /\ dl.buffer < dl.total_size)
          => DownloadRaised
    /\ dl.loaded => dl.buffer >= dl.total_size

\* A download that declares a length of 0 and whose stream yields no chunk.
EmptyDownload ==
    /\ dl.stream.hasLength /\ dl.stream.length = 0
    /\ dl.stream.chunks = <<>> /\ ~dl.stream.drops

\* C20: a download that declares a length of 0 and yields no chunk does not
\* hang, a step of get_result is possible until it is over, and it ends by
\* returning, with an empty buffer.
C20_EmptyDownloadReturnsEmpty ==
    EmptyDownload =>
        /\ dl.pc # "done" => ENABLED NextDownload
        /\ dl.pc = "done" => (dl.outcome = "returned" /\ dl.buffer = 0)

\* C21: a duplex STREAM message whose dependencies and node index name nodes
\* of the graph has its dependencies injected and then, once, the node at the
\* index executed: the node finds the graph with the dependencies written.
\* No other step of a call executes a node.
C21_StreamInjectsThenExecutesOnce ==
    [][IF receives' = receives + 1 /\ CleanStream(last'.response)
       THEN /\ executed' = Append(executed, last'.response.index)
            /\ exec_seen' = Inject(graph, last'.response.items).graph
            /\ \A n \in Names(last'.response.items) :
                   exec_seen'[n] = ValueIn(last'.response.items, n)
       ELSE calls' = calls => executed' = executed
      ]_vars

C21_Witness ==
    /\ FromDuplex /\ CleanStream(last.response) /\ receives = 2
    /\ executed = <<1, 0>> /\ last.response.items = << <<1, 2>> >>
    /\ exec_seen[1] = 2

\* C30: whatever the ssl argument and CONFIG.API.SSL are, the duplex address
\* is secure (wss) exactly when the request address is secure (https), and
\* the two name the same host.
C30_ChannelAndRequestSchemesAgree ==
    self.built =>
        /\ (self.ws_address.scheme = "wss") <=> (self.address.scheme = "https")
        /\ self.ws_address.host = self.address.host

\* The nodes that handling the messages of s executes, in order.
RECURSIVE StreamedNodes(_)
StreamedNodes(s) ==
    IF s = <<>> THEN <<>>
    ELSE LET before == StreamedNodes(SubSeq(s, 1, Len(s) - 1)) IN
         IF CleanStream(s[Len(s)]) THEN Append(before, s[Len(s)].index) ELSE before

\* C22: in a blocking call the duplex messages are handled one at a time in
\* the order delivered.  The messages handled are the first messages of the
\* channel, each once and in that order; at most one message is received and
\* not yet handled, and no message is received while one is; the nodes
\* executed are those of the messages handled; when the call ends every
\* message received has been handled, the last of them ending the call.
C22_MessagesHandledInOrder ==
    /\ Len(handled) <= Len(channel)
    /\ handled = SubSeq(channel, 1, Len(handled))
    /\ receives = Len(handled) + (IF pc = "handling" THEN 1 ELSE 0)
    /\ pc = "handling" => last.response = channel[receives]
    /\ executed = StreamedNodes(handled)
    /\ (Done /\ receives > 0) =>
          /\ last.response = handled[Len(handled)]
          /\ \/ Raised
             \/ Returned /\ last.response.status = "COMPLETED"

C22_Witness ==
    /\ Returned /\ Len(handled) = 2 /\ receives = 2
    /\ handled[1].status = "STREAM" /\ handled[2].status = "COMPLETED"
    /\ executed = <<1>>

\* C23: a blocking call issues its POST only once the duplex channel has
\* connected, with the session id of that channel in its headers; a call
\* whose connect failed issues no POST.  A non-blocking call connects no
\* channel and its POST carries no session id.
C23_SubmitFollowsConnect ==
    /\ (pc # "idle" /\ blocking /\ posts > 0) =>
          /\ connects = 1 /\ outcome # "ConnectFault"
          /\ sent.sent /\ sent.session_id
    /\ (pc # "idle" /\ blocking /\ outcome = "ConnectFault") =>
          /\ posts = 0 /\ ~sent.sent
    /\ (pc # "idle" /\ blocking /\ connects = 0) => posts = 0
    /\ (pc # "idle" /\ ~blocking) =>
          /\ connects = 0
          /\ posts > 0 => (sent.sent /\ ~sent.session_id)

C23_Witness ==
    /\ blocking /\ pc = "receiving" /\ connects = 1 /\ posts = 1
    /\ sent.sent /\ sent.session_id /\ http = 200

\* C24: nothing is retried within a call.  A call issues at most one POST
\* /request and at most one GET /response, never both; a step that raises
\* ends the call, and once a call has ended (returned or raised) the only
\* step left is the start of another call, with nothing issued yet.
C24_NoRetryWithinCall ==
    [][/\ posts' <= 1
       /\ Len(polls') <= 1
       /\ posts' + Len(polls') <= 1
       /\ (outcome = "none" /\ outcome' \notin {"none", "returned"}) => pc' = "done"
       /\ Done =>
            /\ calls' = calls + 1
            /\ posts' = 0 /\ polls' = <<>> /\ connects' = 0
            /\ receives' = 0 /\ call_downloads' = <<>>
      ]_vars

C24_Witness ==
    /\ Raised /\ outcome = "ConnectionError" /\ posts = 1 /\ http = 500
    /\ calls = 2 /\ blocking

\* The payload that the step handling last' gives to the injector.
InjectedPayload(l) ==
    IF l.response.status = "STREAM" THEN l.response.items ELSE Produced(l).items

\* C25: whenever a call fails the graph is fully injected or untouched: a
\* step whose injection raises at an entry naming a node the graph does not
\* hold leaves the graph as it was before the step.
C25_FailedInjectionLeavesGraph ==
    [][(/\ HandlesStep
        /\ outcome = "none" /\ outcome' = "KeyError"
        /\ last'.response.status \in {"STREAM", "COMPLETED"}
        /\ ~(Names(InjectedPayload(last')) \subseteq Nodes))
       => graph' = graph
      ]_vars

\* C26: a duplex message or a poll response whose id is not the id of the job
\* the call submitted or polls ends the call with a fault, and nothing of it
\* is injected into the graph.
C26_ForeignJobIdIsFault ==
    [][(/\ receives' = receives + 1 \/ (Len(polls') = Len(polls) + 1 /\ http' = 200)
        /\ last'.response.id # CallJob')
       => /\ pc' = "done" /\ outcome' \notin {"none", "returned"}
          /\ injected' = injected
          /\ graph' = graph
      ]_vars

\* C28: every step in which handling a COMPLETED response produces a result,
\* the HTTP response to the POST included, injects that result into the
\* caller's graph.
C28_ProducedResultIsInjected ==
    [][(HandlesStep /\ CleanCompleted(last'))
       => injected' = Append(injected, Produced(last').items)
      ]_vars

\* C27: after the invocations 0..n-1 (n >= 1) have been batched in order, the
\* merged prompts are the prompts of invocation 0, then those of invocation
\* 1, and so on, none missing; there are as many merged parameters as merged
\* prompts; the parameters that invocation i contributed carry invoker group
\* i; and the invoker group counter is n.
C27_MergeKeepsOrderAndTags ==
    (plan.returned /\ Len(invoker_inputs) >= 1) =>
        LET n == Len(invoker_inputs)
            b == plan.batched_input
            at(i) == SumTo(Lengths, i - 1) IN
        /\ b.kind = "merged"
        /\ Len(b.prompts) = SumTo(Lengths, n)
        /\ \A i \in 1..n : \A k \in 1..Lengths[i] :
              b.prompts[at(i) + k] = PrepareInput(invoker_inputs[i]).prompts[k]
        /\ Len(b.params) = Len(b.prompts)
        /\ \A i \in 1..n : \A k \in 1..Len(PrepareInput(invoker_inputs[i]).params) :
              b.params[at(i) + k] = i - 1
        /\ b.invoker_group = n

C27_Witness ==
    /\ plan.returned /\ Len(invoker_inputs) = 3
    /\ plan.batched_input.prompts = <<"p", "q", "r", "s">>
    /\ plan.batched_input.params = <<0, 1, 1, 2>>
    /\ plan.batched_input.invoker_group = 3

\* C29: a blocking call never writes the persisted job id: all through the
\* call and after it, whatever was received or raised, the persisted id is
\* what it was when the call began.  No blocking call polls, one that finds
\* a job id persisted included: unless its connect failed it has issued its
\* POST by the time it ends.
C29_BlockingLeavesPersistedId ==
    (pc # "idle" /\ blocking) =>
        /\ config_job_id = start.config
        /\ polls = <<>>
        /\ (Done /\ outcome # "ConnectFault") => posts = 1

C29_Witness ==
    /\ blocking /\ Returned
    /\ start.config # NoJob /\ job_id = start.config
    /\ config_job_id = start.config
    /\ posts = 1 /\ post_ids # <<start.config>>

====
